---- MODULE Spec2Model ----
(***************************************************************************)
(* The activity panel of crates/frontend/src/workspace/activity_panel:     *)
(* the ordered collection of open activities, the active-activity pointer, *)
(* the OpenFile command stream and the tab handlers (select, close).       *)
(*                                                                         *)
(* An activity is an Rc<Activity>; its identity is the allocation, which   *)
(* the model keeps as the field id (a fresh number per Rc::new).  A file   *)
(* is an Rc<File>, compared by identity; the model names files 1..NumFiles.*)
(* Option<T> is a sequence of length 0 (None) or 1 (Some).                 *)
(***************************************************************************)
EXTENDS Integers, Sequences, FiniteSets

\* Bounds of the model.
NumFiles == 2
MaxCommands == 4
MaxStream == 2
MaxCoord == 1
MaxHeight == 120

\* const TAB_HEIGHT: u32 = 48
TAB_HEIGHT == 48

Files == 1..NumFiles

VARIABLES
    activities,       \* ActivityPanel.activities: MutableVec<Rc<Activity>>
    active_activity,  \* ActivityPanel.active_activity: Mutable<Option<Rc<Activity>>>
    tabs,             \* the tabs the tab bar currently displays (children_signal_vec)
    rx,               \* workspace_command_rx: the OpenFile commands not yet consumed
    sent,             \* number of commands the workspace has sent so far
    next_id,          \* the identity the next Rc::new(Activity) will get
    last,             \* the last handler that ran, its argument and the state it started from
    content,          \* the activity whose content the content view displays (child_signal)
    activity_count,   \* the length the activity_count signal last delivered
    show_menu,        \* ContextMenuState.show_menu
    menu_position,    \* ContextMenuState.menu_position
    pointer,          \* (event.x(), event.y()) of the last ContextMenu event
    height,           \* the panel height the height signal last delivered
    content_height,   \* the height passed to the active activity's content
    pc,               \* the statement the running callback is at, "idle" between callbacks
    cur,              \* the callback that runs (or ran last) and its locals
    lock_activities,  \* the lock of activities: "free", "read" or "write"
    lock_active,      \* the lock of active_activity: "free" or "write"
    log,              \* every command sent on the stream, in arrival order
    done              \* the commands whose processing has completed, in completion order

\* the state of the rendering observers other than the tab bar
view == <<content, activity_count>>
\* the context menu
menu == <<show_menu, menu_position, pointer>>
\* the panel's size signals
size == <<height, content_height>>
\* the position and locks of the running callback, and the stream's history
steps == <<pc, cur, lock_activities, lock_active, log, done>>

vars == <<activities, active_activity, tabs, rx, sent, next_id, last,
          view, menu, size, steps>>

----------------------------------------------------------------------------
\* Values

None == <<>>
Some(x) == <<x>>

\* Rc::new(Activity::Welcome(..)) of Default::default
Welcome == [tag |-> "Welcome", file |-> 0, id |-> 0]

NewEditor_PerFile(file, id) == [tag |-> "Editor", file |-> file, id |-> file]

\* Rc::new(Activity::Editor(Rc::new(editor::Editor::new(file))))
NewEditor(file, id) == [tag |-> "Editor", file |-> file, id |-> id]

\* Rc::ptr_eq on two activities: the same allocation
PtrEq(a, b) == a.id = b.id

\* Rc::ptr_eq(&editor.file, &file): the same file object
FilePtrEq(f, g) == f = g

----------------------------------------------------------------------------
\* The OpenFile handler's lookup

IsEditorFor_AnyEditor(activity, file) == activity.tag = "Editor"

\* the closure given to find: an Editor whose file is the command's file
IsEditorFor(activity, file) ==
    /\ activity.tag = "Editor"
    /\ FilePtrEq(activity.file, file)

FindEditor_NeverFound(s, file) == None

\* activities.iter().find(..).cloned(): the first match, or None
FindEditor(s, file) ==
    IF \E i \in DOMAIN s : IsEditorFor(s[i], file)
    THEN LET i == CHOOSE i \in DOMAIN s :
                    /\ IsEditorFor(s[i], file)
                    /\ \A j \in DOMAIN s : IsEditorFor(s[j], file) => i <= j
         IN Some(s[i])
    ELSE None

PushCloned_Front(s, a) == <<a>> \o s

\* activities.push_cloned(editor.clone())
PushCloned(s, a) == Append(s, a)

----------------------------------------------------------------------------
\* The close handler's steps

Retain_Clear(s, this) == <<>>

RECURSIVE Retain(_, _)
\* activities.retain(|activity| !Rc::ptr_eq(activity, &this))
Retain(s, this) ==
    IF s = <<>> THEN <<>>
    ELSE IF PtrEq(Head(s), this) THEN Retain(Tail(s), this)
         ELSE <<Head(s)>> \o Retain(Tail(s), this)

\* active_activity.as_ref().is_some_and(|a| Rc::ptr_eq(a, &this))
IsSomeAnd(opt, this) == opt # None /\ PtrEq(opt[1], this)

First_Last(s) == IF s = <<>> THEN None ELSE Some(s[Len(s)])

\* activities.lock_ref().first().cloned()
First(s) == IF s = <<>> THEN None ELSE Some(s[1])

Reselect_Always(opt, this, remaining) == First(remaining)

\* if active is this { *active_activity = first remaining }
Reselect(opt, this, remaining) ==
    IF IsSomeAnd(opt, this) THEN First(remaining) ELSE opt

HasCloseAffordance_Every(a) == TRUE

\* .apply_if(matches!(**this, Activity::Editor(_)), ..): only Editor tabs get the close icon
HasCloseAffordance(a) == a.tag = "Editor"

\* A tab of the tab bar.  Its handlers are closures that own a clone of the
\* Rc (clone!(panel, this => ..)), so they can run for as long as the tab is
\* displayed; the tab bar follows activities through the children_signal_vec
\* observer (RenderTabs), which runs after the handler that changed it.
Displayed(a) == \E i \in DOMAIN tabs : tabs[i] = a

\* no callback has run yet
NoCall == [op |-> "none", this |-> Welcome, file |-> 0, editor |-> None,
           capture |-> FALSE]

Record(op, arg, file) ==
    [op |-> op, arg |-> arg, file |-> file,
     activities |-> activities, active_activity |-> active_activity]

----------------------------------------------------------------------------
\* impl Default for ActivityPanel, followed by the first rendering of the tab bar
Init ==
    /\ activities = <<Welcome>>
    /\ active_activity = Some(Welcome)
    /\ tabs = <<Welcome>>
    /\ rx = <<>>
    /\ sent = 0
    /\ next_id = 1
    /\ last = [op |-> "new", arg |-> Welcome, file |-> 0,
               activities |-> <<>>, active_activity |-> None]
    /\ content = Some(Welcome)
    /\ activity_count = 1
    /\ show_menu = FALSE
    /\ menu_position = <<0, 0>>
    /\ pointer = <<0, 0>>
    /\ height = 0
    /\ content_height = 0
    /\ pc = "idle"
    /\ cur = NoCall
    /\ lock_activities = "free"
    /\ lock_active = "free"
    /\ log = <<>>
    /\ done = <<>>

\* The workspace sends WorkspaceCommand::OpenFile(file) on the command stream.
SendOpenFile(file) ==
    /\ sent < MaxCommands
    /\ sent' = sent + 1
    /\ rx' = Append(rx, file)
    /\ UNCHANGED <<activities, active_activity, tabs, next_id, last>>
    /\ UNCHANGED <<view, menu, size, steps>>

\* The for_each closure on the command stream: WorkspaceCommand::OpenFile(file).
\* The async block holds no await and the panel is an Rc (one thread), so the
\* lookup, the push and the set run as one step.
OpenFile ==
    /\ rx # <<>>
    /\ LET file == Head(rx)
           found == FindEditor(activities, file)
           editor == IF found # None THEN found[1] ELSE NewEditor(file, next_id)
       IN /\ activities' = IF found # None THEN activities
                           ELSE PushCloned(activities, editor)
          /\ next_id' = IF found # None THEN next_id ELSE next_id + 1
          /\ active_activity' = Some(editor)
          /\ last' = Record("open", editor, file)
    /\ rx' = Tail(rx)
    /\ UNCHANGED <<tabs, sent>>
    /\ UNCHANGED <<view, menu, size, steps>>

\* The tab's PointerDown handler: panel.active_activity.set(Some(this.clone()))
SelectActivity(this) ==
    /\ Displayed(this)
    /\ active_activity' = Some(this)
    /\ last' = Record("select", this, 0)
    /\ UNCHANGED <<activities, tabs, rx, sent, next_id>>
    /\ UNCHANGED <<view, menu, size, steps>>

\* The close icon's PointerDown handler
CloseActivity(this) ==
    /\ Displayed(this)
    /\ HasCloseAffordance(this)
    /\ activities' = Retain(activities, this)
    /\ active_activity' = Reselect(active_activity, this, activities')
    /\ last' = Record("close", this, 0)
    /\ UNCHANGED <<tabs, rx, sent, next_id>>
    /\ UNCHANGED <<view, menu, size, steps>>

\* children_signal_vec over activities.signal_vec_cloned(): the tab bar catches up
RenderTabs ==
    /\ tabs # activities
    /\ tabs' = activities
    /\ UNCHANGED <<activities, active_activity, rx, sent, next_id, last>>
    /\ UNCHANGED <<view, menu, size, steps>>

Next ==
    \/ \E file \in Files : SendOpenFile(file)
    \/ OpenFile
    \/ \E i \in DOMAIN tabs : SelectActivity(tabs[i])
    \/ \E i \in DOMAIN tabs : CloseActivity(tabs[i])
    \/ RenderTabs

Spec == Init /\ [][Next]_vars

----------------------------------------------------------------------------
\* The same handlers statement by statement, with the locks they take and the
\* observers of the rendering layer.  The panel is an Rc and its handlers are
\* synchronous closures (the async block of OpenFile holds no await), so a
\* callback that has started runs to its end before any other callback,
\* observer or sender runs: another one starts only when pc = "idle".

Idle_Always == TRUE

\* no callback is running
Idle == pc = "idle"

StreamNext_Newest(q) == q[Len(q)]

\* the item the stream yields to for_each: the oldest command
StreamNext(q) == Head(q)

GuardDropped_Held == "write"

\* the MutableVecLockMut moved into the unwrap_or_else closure is dropped
\* when unwrap_or_else returns, before active_activity is set
GuardDropped == "free"

Stopped_Missing == FALSE

\* ev.stop_propagation() in the close icon's handler
Stopped == TRUE

\* The tab's own PointerDown listener also runs for a pointer-down on the
\* close icon inside it: before the icon's listener when it listens in the
\* capture phase, after it when it listens in the bubble phase and the
\* propagation has not been stopped.  Which phase .event() registers is the
\* library's choice.
Propagates(capture) == ~capture /\ ~Stopped

ShowBackground_NonEmpty(count) == count # 0

\* (count == 0).then(|| Self::render_background(..))
ShowBackground(count) == count = 0

RenderedTabs_FirstOnly(s) == SubSeq(s, 1, 1)

\* children_signal_vec(..map(..)): one tab per activity, in collection order
RenderedTabs(s) == s

Call(op, this, file, capture) ==
    [op |-> op, this |-> this, file |-> file, editor |-> None, capture |-> capture]

\* The workspace sends a command; the unbounded channel takes it at once.
StreamSend(file) ==
    /\ Idle
    /\ sent < MaxStream
    /\ sent' = sent + 1
    /\ rx' = Append(rx, file)
    /\ log' = Append(log, file)
    /\ UNCHANGED <<activities, active_activity, tabs, next_id, last>>
    /\ UNCHANGED <<view, menu, size, pc, cur, lock_activities, lock_active, done>>

\* for_each takes the next command and calls the closure with it
ForEachNext ==
    /\ Idle
    /\ rx # <<>>
    /\ cur' = Call("open", Welcome, StreamNext(rx), FALSE)
    /\ rx' = Tail(rx)
    /\ pc' = "open_lock"
    /\ UNCHANGED <<activities, active_activity, tabs, sent, next_id, last>>
    /\ UNCHANGED <<view, menu, size, lock_activities, lock_active, log, done>>

\* let mut activities = this.activities.lock_mut()
OpenLockMut ==
    /\ pc = "open_lock"
    /\ lock_activities = "free"
    /\ lock_activities' = "write"
    /\ pc' = "open_find"
    /\ UNCHANGED <<activities, active_activity, tabs, rx, sent, next_id, last>>
    /\ UNCHANGED <<view, menu, size, cur, lock_active, log, done>>

\* activities.iter().find(..).cloned(): found, unwrap_or_else returns it
OpenFind ==
    /\ pc = "open_find"
    /\ LET found == FindEditor(activities, cur.file)
       IN IF found # None
          THEN /\ cur' = [cur EXCEPT !.editor = found]
               /\ lock_activities' = GuardDropped
               /\ pc' = "open_set"
          ELSE /\ pc' = "open_push"
               /\ UNCHANGED <<cur, lock_activities>>
    /\ UNCHANGED <<activities, active_activity, tabs, rx, sent, next_id, last>>
    /\ UNCHANGED <<view, menu, size, lock_active, log, done>>

\* the unwrap_or_else closure: a new Editor is pushed
OpenPush ==
    /\ pc = "open_push"
    /\ LET editor == NewEditor(cur.file, next_id)
       IN /\ activities' = PushCloned(activities, editor)
          /\ cur' = [cur EXCEPT !.editor = Some(editor)]
    /\ next_id' = next_id + 1
    /\ lock_activities' = GuardDropped
    /\ pc' = "open_set"
    /\ UNCHANGED <<active_activity, tabs, rx, sent, last>>
    /\ UNCHANGED <<view, menu, size, lock_active, log, done>>

\* this.active_activity.set(Some(editor)); the command is done
OpenSetActive ==
    /\ pc = "open_set"
    /\ lock_active = "free"
    /\ active_activity' = cur.editor
    /\ done' = Append(done, cur.file)
    /\ pc' = "idle"
    /\ UNCHANGED <<activities, tabs, rx, sent, next_id, last>>
    /\ UNCHANGED <<view, menu, size, cur, lock_activities, lock_active, log>>

\* pointer-down on a tab (not on its close icon)
PointerDownTab(this) ==
    /\ Idle
    /\ Displayed(this)
    /\ lock_active = "free"
    /\ active_activity' = Some(this)
    /\ cur' = Call("select", this, 0, FALSE)
    /\ UNCHANGED <<activities, tabs, rx, sent, next_id, last>>
    /\ UNCHANGED <<view, menu, size, pc, lock_activities, lock_active, log, done>>

\* pointer-down on the close icon of a tab: the event is dispatched, the
\* icon's handler starts with ev.stop_propagation()
PointerDownClose(this, capture) ==
    /\ Idle
    /\ Displayed(this)
    /\ HasCloseAffordance(this)
    /\ active_activity' = IF capture THEN Some(this) ELSE active_activity
    /\ cur' = Call("close", this, 0, capture)
    /\ pc' = "close_retain"
    /\ UNCHANGED <<activities, tabs, rx, sent, next_id, last>>
    /\ UNCHANGED <<view, menu, size, lock_activities, lock_active, log, done>>

\* panel.activities.lock_mut().retain(..): the lock is taken and released
CloseRetain ==
    /\ pc = "close_retain"
    /\ lock_activities = "free"
    /\ activities' = Retain(activities, cur.this)
    /\ pc' = "close_lock"
    /\ UNCHANGED <<active_activity, tabs, rx, sent, next_id, last>>
    /\ UNCHANGED <<view, menu, size, cur, lock_activities, lock_active, log, done>>

\* let mut active_activity = panel.active_activity.lock_mut()
CloseLockActive ==
    /\ pc = "close_lock"
    /\ lock_active = "free"
    /\ lock_active' = "write"
    /\ pc' = "close_reselect"
    /\ UNCHANGED <<activities, active_activity, tabs, rx, sent, next_id, last>>
    /\ UNCHANGED <<view, menu, size, cur, lock_activities, log, done>>

\* the if of the close handler (lock_ref on activities inside it), the drop
\* of the active_activity lock, and the end of the event's dispatch
CloseReselect ==
    /\ pc = "close_reselect"
    /\ IsSomeAnd(active_activity, cur.this) => lock_activities # "write"
    /\ active_activity' =
          IF Propagates(cur.capture) THEN Some(cur.this)
          ELSE Reselect(active_activity, cur.this, activities)
    /\ lock_active' = "free"
    /\ pc' = "idle"
    /\ UNCHANGED <<activities, tabs, rx, sent, next_id, last>>
    /\ UNCHANGED <<view, menu, size, cur, lock_activities, log, done>>

\* the tab bar's observer (children_signal_vec) reads activities
TabsSignal ==
    /\ Idle
    /\ lock_activities # "write"
    /\ tabs # RenderedTabs(activities)
    /\ tabs' = RenderedTabs(activities)
    /\ UNCHANGED <<activities, active_activity, rx, sent, next_id, last>>
    /\ UNCHANGED <<view, menu, size, steps>>

\* the content view's observer (active_activity.signal_cloned()) reads active_activity
ContentSignal ==
    /\ Idle
    /\ lock_active = "free"
    /\ content # active_activity
    /\ content' = active_activity
    /\ UNCHANGED <<activities, active_activity, tabs, rx, sent, next_id, last>>
    /\ UNCHANGED <<activity_count, menu, size, steps>>

\* the activity_count signal (signal_vec_cloned().len()) delivers the length
CountSignal ==
    /\ Idle
    /\ lock_activities # "write"
    /\ activity_count # Len(activities)
    /\ activity_count' = Len(activities)
    /\ UNCHANGED <<activities, active_activity, tabs, rx, sent, next_id, last>>
    /\ UNCHANGED <<content, menu, size, steps>>

MenuPosition_Swapped(x, y) == <<y, x>>

\* context_menu_state.menu_position.set((event.x(), event.y()))
MenuPosition(x, y) == <<x, y>>

\* Mutable::set_neq: the value is replaced when it differs
SetNeq(old, new) == IF old # new THEN new ELSE old

\* secondary click on a tab: event.prevent_default(), show_menu.set(true),
\* menu_position.set((event.x(), event.y()))
ContextMenuEvent(this, x, y) ==
    /\ Idle
    /\ Displayed(this)
    /\ pointer' = <<x, y>>
    /\ show_menu' = TRUE
    /\ menu_position' = MenuPosition(x, y)
    /\ cur' = Call("contextmenu", this, 0, FALSE)
    /\ UNCHANGED <<activities, active_activity, tabs, rx, sent, next_id, last>>
    /\ UNCHANGED <<view, size, pc, lock_activities, lock_active, log, done>>

\* MouseDown on "Option k" of the displayed menu: show_menu.set_neq(false)
MenuOption(k) ==
    /\ Idle
    /\ show_menu
    /\ show_menu' = SetNeq(show_menu, FALSE)
    /\ cur' = Call("option", Welcome, 0, FALSE)
    /\ UNCHANGED <<activities, active_activity, tabs, rx, sent, next_id, last>>
    /\ UNCHANGED <<view, size, pc, lock_activities, lock_active, log, done>>
    /\ UNCHANGED <<menu_position, pointer>>

\* a statement of the running handler
HandlerStep ==
    \/ OpenLockMut
    \/ OpenFind
    \/ OpenPush
    \/ OpenSetActive
    \/ CloseRetain
    \/ CloseLockActive
    \/ CloseReselect

\* the stream, the handlers and the tab bar
NextLocks ==
    \/ \E file \in Files : StreamSend(file)
    \/ ForEachNext
    \/ HandlerStep
    \/ \E i \in DOMAIN tabs : PointerDownTab(tabs[i])
    \/ \E i \in DOMAIN tabs, capture \in BOOLEAN : PointerDownClose(tabs[i], capture)
    \/ TabsSignal

\* with the content view
NextView ==
    \/ NextLocks
    \/ ContentSignal

\* with the placeholder's observer
NextSteps ==
    \/ NextView
    \/ CountSignal

\* the stream, the handlers, the tab bar and the context menu
NextMenu ==
    \/ NextLocks
    \/ \E i \in DOMAIN tabs, x \in 0..MaxCoord, y \in 0..MaxCoord :
          ContextMenuEvent(tabs[i], x, y)
    \/ \E k \in 1..4 : MenuOption(k)

SpecSteps == Init /\ [][NextSteps]_vars

SpecMenu == Init /\ [][NextMenu]_vars

\* The executor polls the for_each future whenever a command is waiting, and
\* a handler that has started runs on to its end.
FairHandlers == WF_vars(HandlerStep) /\ SF_vars(ForEachNext)

\* The executor polls every observer that a change has woken.
FairObservers == SF_vars(TabsSignal) /\ SF_vars(ContentSignal)

SpecLocksLive == Init /\ [][NextLocks]_vars /\ FairHandlers

SpecViewLive == Init /\ [][NextView]_vars /\ FairHandlers /\ FairObservers

----------------------------------------------------------------------------
\* The height of the content view

\* Subtraction without the saturation at zero
UncheckedSub(a, b) == a - b

\* u32::saturating_sub
SaturatingSub(a, b) == IF a >= b THEN a - b ELSE 0

\* height.signal_ref(|height| height.saturating_sub(TAB_HEIGHT))
ContentHeight(h) == SaturatingSub(h, TAB_HEIGHT)

\* The height signal delivers h; the content of the active activity is
\* rendered with the mapped height (only while some activity is displayed).
HeightSignal(h) ==
    /\ content # None
    /\ height' = h
    /\ content_height' = ContentHeight(h)
    /\ UNCHANGED <<activities, active_activity, tabs, rx, sent, next_id, last>>
    /\ UNCHANGED <<view, menu, steps>>

NextHeight == \E h \in 0..MaxHeight : HeightSignal(h)

SpecHeight == Init /\ [][NextHeight]_vars

----------------------------------------------------------------------------
\* Helpers of the properties below (stated on the collection directly)

Member(s, a) == \E i \in DOMAIN s : s[i].id = a.id

HasEditorFor(s, file) == \E i \in DOMAIN s : s[i].tag = "Editor" /\ s[i].file = file

\* s without its k-th element, the others in their order
Without(s, k) == [i \in 1..(Len(s) - 1) |-> IF i < k THEN s[i] ELSE s[i + 1]]

ClosedActive == last.op = "close" /\ last.active_activity = Some(last.arg)

----------------------------------------------------------------------------
\* C1: in every reachable state, if active_activity is Some(a) then a is
\* reference-identical to some element of activities.
C1_ActiveIsMember ==
    active_activity # None => Member(activities, active_activity[1])

\* C2: for every file, activities holds at most one Editor whose file it is,
\* whatever OpenFile commands, selects and closes have been processed.
C2_OneEditorPerFile ==
    \A i, j \in DOMAIN activities :
        (/\ activities[i].tag = "Editor"
         /\ activities[j].tag = "Editor"
         /\ activities[i].file = activities[j].file) => i = j

\* an OpenFile for a file that already had its Editor has just been processed
C2_Witness ==
    /\ last.op = "open"
    /\ HasEditorFor(last.activities, last.file)
    /\ Cardinality({i \in DOMAIN activities : activities[i].file = last.file}) = 1

\* C3: after OpenFile(f) the active activity is the Editor of f, a member of
\* activities; and when f already had an Editor, activities is unchanged and
\* that existing Editor is the active one.
C3_OpenExisting ==
    last.op = "open" =>
        /\ active_activity # None
        /\ active_activity[1].tag = "Editor"
        /\ active_activity[1].file = last.file
        /\ \E i \in DOMAIN activities : activities[i] = active_activity[1]
        /\ HasEditorFor(last.activities, last.file) =>
              /\ activities = last.activities
              /\ \E i \in DOMAIN last.activities :
                    last.activities[i] = active_activity[1]

\* OpenFile of an already open file that was not the active one
C3_Witness ==
    /\ last.op = "open"
    /\ HasEditorFor(last.activities, last.file)
    /\ Len(activities) = 3
    /\ last.active_activity # active_activity

\* C4: closing the active activity makes element 0 of the remaining
\* collection the active one (not the neighbour of the closed tab).
C4_CloseActiveSelectsFirst ==
    (ClosedActive /\ activities # <<>>) => active_activity = Some(activities[1])

\* the last of three tabs was active and has been closed: its neighbour was
\* the second tab, the first one is active now
C4_Witness ==
    /\ ClosedActive
    /\ Len(last.activities) = 3
    /\ last.activities[3] = last.arg
    /\ activities = <<last.activities[1], last.activities[2]>>
    /\ active_activity = Some(last.activities[1])

\* C5: closing a member that is not the active activity leaves
\* active_activity unchanged and removes exactly that element, the others
\* keeping their order.
C5_CloseInactive ==
    (/\ last.op = "close"
     /\ Member(last.activities, last.arg)
     /\ last.active_activity # Some(last.arg)) =>
        /\ active_activity = last.active_activity
        /\ \E k \in DOMAIN last.activities :
              /\ last.activities[k] = last.arg
              /\ activities = Without(last.activities, k)

\* the middle tab of three was closed while the last one was active
C5_Witness ==
    /\ last.op = "close"
    /\ Len(last.activities) = 3
    /\ last.activities[2] = last.arg
    /\ last.active_activity = Some(last.activities[3])
    /\ active_activity = last.active_activity

\* C6: OpenFile of a file with no Editor appends a new Editor at the end and
\* makes it active; the earlier elements, Welcome first, stay before it in
\* their order, so the tabs are in the order their activities were created.
C6_OpenNewAppends ==
    /\ (last.op = "open" /\ ~HasEditorFor(last.activities, last.file)) =>
          /\ Len(activities) = Len(last.activities) + 1
          /\ SubSeq(activities, 1, Len(last.activities)) = last.activities
          /\ activities[Len(activities)].tag = "Editor"
          /\ activities[Len(activities)].file = last.file
          /\ ~Member(last.activities, activities[Len(activities)])
          /\ active_activity = Some(activities[Len(activities)])
    /\ \A i, j \in DOMAIN activities : i < j => activities[i].id < activities[j].id

\* two distinct files opened one after the other, after the Welcome tab
C6_Witness ==
    /\ last.op = "open"
    /\ ~HasEditorFor(last.activities, last.file)
    /\ Len(activities) = 3
    /\ activities[1].tag = "Welcome"
    /\ activities[2].file # activities[3].file
    /\ active_activity = Some(activities[3])

\* C7: selecting an activity that is not a member of activities changes
\* neither activities nor active_activity.
C7_SelectNonMemberNoOp ==
    (last.op = "select" /\ ~Member(last.activities, last.arg)) =>
        /\ activities = last.activities
        /\ active_activity = last.active_activity

\* C8: closing an activity that is not in activities (already closed) leaves
\* activities and active_activity unchanged.
C8_CloseNonMemberNoOp ==
    (last.op = "close" /\ ~Member(last.activities, last.arg)) =>
        /\ activities = last.activities
        /\ active_activity = last.active_activity

\* C10: the Welcome activity occurs exactly once in activities, at index 0.
C10_WelcomeFirst ==
    /\ activities # <<>>
    /\ activities[1].tag = "Welcome"
    /\ \A i \in DOMAIN activities : activities[i].tag = "Welcome" => i = 1

\* every Editor has been closed again while Welcome was not the active tab
C10_Witness ==
    /\ ClosedActive
    /\ activities = <<Welcome>>
    /\ active_activity = Some(Welcome)

\* C18: an OpenFile for a file whose Editor has been closed creates a new
\* Editor: its identity is the newest allocation, different from every
\* activity created before (the closed one included); it is appended at the
\* end of activities and is the active activity.
C18_ReopenCreatesFresh ==
    /\ \A i \in DOMAIN activities : activities[i].id < next_id
    /\ \A i \in DOMAIN tabs : tabs[i].id < next_id
    /\ (last.op = "open" /\ ~HasEditorFor(last.activities, last.file)) =>
          /\ last.arg.id = next_id - 1
          /\ ~Member(last.activities, last.arg)
          /\ last.arg.tag = "Editor" /\ last.arg.file = last.file
          /\ activities = last.activities \o <<last.arg>>
          /\ active_activity = Some(last.arg)

\* the Editor of a file was the second tab and was closed (its tab is still
\* displayed); the file was opened again and its new Editor is the last tab
C18_Witness ==
    /\ last.op = "open"
    /\ Len(tabs) = 3 /\ Len(activities) = 3
    /\ tabs[2].file = last.file
    /\ tabs[2].id # last.arg.id
    /\ ~Member(activities, tabs[2])
    /\ activities[3] = last.arg
    /\ active_activity = Some(last.arg)

\* C19: active_activity is never None, and closing the active Editor makes
\* the Welcome activity the active one.
C19_NeverNone ==
    /\ active_activity # None
    /\ ClosedActive => active_activity = Some(Welcome)

\* the active Editor, last of three tabs, has been closed
C19_Witness ==
    /\ ClosedActive
    /\ last.arg.tag = "Editor"
    /\ Len(last.activities) = 3
    /\ Len(activities) = 2
    /\ active_activity = Some(Welcome)

\* C20: the height passed to the active activity's content is the panel
\* height minus the 48 units of the tab bar, clamped at 0: h - 48 when
\* h >= 48, 0 when h < 48, never a wrapped-around unsigned value.
C20_ContentHeight ==
    /\ height >= 48 => content_height = height - 48
    /\ height < 48 => content_height = 0
    /\ content_height >= 0 /\ content_height <= height

\* a panel lower than the tab bar: the content gets height 0
C20_Witness == height = 47 /\ content_height = 0

----------------------------------------------------------------------------
\* Properties of the statement-level specification

OpenRunning == pc \in {"open_lock", "open_find", "open_push", "open_set"}

CloseRunning == pc \in {"close_retain", "close_lock", "close_reselect"}

\* the command being processed, if any
InProgress == IF OpenRunning THEN <<cur.file>> ELSE <<>>

\* C11: commands are processed one at a time in arrival order: the commands
\* completed, the one in progress (at most one) and those waiting make up
\* the arrival sequence, whatever selects and closes ran in between; a
\* completed command has done its lookup, insert and set-active.
C11_InOrder ==
    /\ done \o InProgress \o rx = log
    /\ OpenRunning => cur.op = "open"
    /\ (pc = "idle" /\ cur.op = "open") =>
          /\ done # <<>>
          /\ done[Len(done)] = cur.file
          /\ active_activity = cur.editor
          /\ \E i \in DOMAIN activities :
                /\ Some(activities[i]) = active_activity
                /\ activities[i].file = cur.file

\* two commands for different files have been processed, and the Editor of
\* the first was closed before the second was taken
C11_Witness ==
    /\ pc = "idle" /\ cur.op = "open"
    /\ Len(done) = 2 /\ done[1] # done[2]
    /\ ~HasEditorFor(activities, done[1])
    /\ HasEditorFor(activities, done[2])

\* C12: a mutation is one critical section: while a handler is between its
\* statements no observer recomputes, no command arrives or is taken and no
\* other handler runs, so the state of close with the element removed and
\* active_activity still pointing at it is seen by nobody.
C12_Atomic ==
    [][pc # "idle" =>
          /\ tabs' = tabs /\ content' = content /\ activity_count' = activity_count
          /\ rx' = rx
          /\ cur'.op = cur.op /\ cur'.this = cur.this /\ cur'.file = cur.file
          /\ (CloseRunning => pc' \in {"close_lock", "close_reselect", "idle"})
          /\ (OpenRunning => pc' \in {"open_find", "open_push", "open_set", "idle"})]_vars

\* the close handler has removed the active activity and not yet re-pointed
\* active_activity
C12_Witness ==
    /\ pc = "close_lock"
    /\ active_activity = Some(cur.this)
    /\ ~Member(activities, cur.this)
    /\ Member(tabs, cur.this)

NoBlocking ==
    /\ pc \in {"open_lock", "close_retain"} => lock_activities = "free"
    /\ pc \in {"open_set", "close_lock"} => lock_active = "free"
    /\ pc = "close_reselect" => lock_activities # "write"
    /\ pc = "idle" => (lock_activities = "free" /\ lock_active = "free")

\* C13: no handler ever waits for a lock (OpenFile and close never block
\* each other), the stream's consumer holds no lock while it waits for the
\* next command, and every command sent is eventually processed.
C13_NoDeadlock ==
    /\ []NoBlocking
    /\ \A k \in 1..MaxStream : (Len(log) >= k) ~> (Len(done) >= k)

\* both commands have been processed and a close has run after them
C13_Witness ==
    /\ pc = "idle" /\ cur.op = "close"
    /\ Len(log) = 2 /\ done = log
    /\ lock_activities = "free" /\ lock_active = "free"

\* C14: after a change the displayed tabs come to equal activities (in
\* order) and the displayed content comes to be that of active_activity;
\* an observer's recomputation changes neither activities nor
\* active_activity and takes no lock away from a handler.
C14_ObserversFollow ==
    /\ (tabs # activities) ~> (tabs = activities)
    /\ (content # active_activity) ~> (content = active_activity)
    /\ [][(tabs' # tabs \/ content' # content) =>
            /\ activities' = activities /\ active_activity' = active_activity
            /\ pc' = pc
            /\ lock_activities' = lock_activities /\ lock_active' = lock_active]_vars

\* the observers have caught up with two opened files
C14_Witness ==
    /\ Len(activities) = 3 /\ tabs = activities
    /\ active_activity # Some(Welcome) /\ content = active_activity

PlaceholderRule ==
    /\ ShowBackground(activity_count) <=> activities = <<>>
    /\ ~(ShowBackground(activity_count) /\ content # None)

\* C15 as stated: the placeholder is shown exactly when activities is empty
\* and never with a content view, and whenever activities is non-empty the
\* content shown is that of active_activity, with one tab per activity in
\* collection order.
C15_Original ==
    /\ PlaceholderRule
    /\ activities # <<>> => (content = active_activity /\ tabs = activities)

\* C15 amended: the placeholder is shown exactly when activities is empty
\* and never with a content view; the content and the tabs shown are those
\* of the observers' last recomputation, and every recomputation makes them
\* the current active_activity and one tab per activity in collection order.
C15_Amended ==
    /\ []PlaceholderRule
    /\ [][tabs' # tabs => tabs' = activities]_vars
    /\ [][content' # content => content' = active_activity]_vars

\* the tab bar and the content view have been recomputed after a close
C15_Witness ==
    /\ pc = "idle" /\ cur.op = "close"
    /\ tabs = activities /\ Len(tabs) = 2
    /\ content = active_activity
    /\ ~ShowBackground(activity_count) /\ activity_count = 2

\* C16: once a pointer-down on a close icon has been handled, the closed
\* activity is not in activities and is not the active activity (the click
\* has not left the closed tab selected).
C16_CloseDoesNotSelect ==
    (pc = "idle" /\ cur.op = "close") =>
        /\ ~Member(activities, cur.this)
        /\ active_activity # Some(cur.this)

\* an inactive tab was closed and the other Editor is still the active one
C16_Witness ==
    /\ pc = "idle" /\ cur.op = "close"
    /\ Len(activities) = 2
    /\ active_activity = Some(activities[2])

MenuOps == {"contextmenu", "option"}

\* C17: a secondary click on a tab shows the menu at the pointer's
\* coordinates, choosing an option hides it, and neither changes activities
\* or active_activity.
C17_MenuLeavesPanel ==
    /\ [](menu_position = pointer)
    /\ [](cur.op = "contextmenu" => show_menu)
    /\ [](cur.op = "option" => ~show_menu)
    /\ [][(\/ show_menu' # show_menu
           \/ menu_position' # menu_position
           \/ pointer' # pointer
           \/ (cur' # cur /\ cur'.op \in MenuOps)) =>
            /\ cur'.op \in MenuOps
            /\ activities' = activities
            /\ active_activity' = active_activity]_vars

\* the menu is shown at (0, 1) over a panel with two Editors, the first active
C17_Witness ==
    /\ cur.op = "contextmenu"
    /\ show_menu /\ menu_position = <<0, 1>>
    /\ Len(activities) = 3
    /\ active_activity = Some(activities[2])

====
